---- MODULE Spec2Model ----
(***************************************************************************)
(* Model of proxy-server.js: a single-process HTTP relay that forwards a   *)
(* JSON request to one of three provider APIs.  The model follows one      *)
(* process from module load to at most one inbound request and its         *)
(* outbound exchange.  Node's http/https modules are the environment: the  *)
(* actions are the callbacks the program registers, their guards are the   *)
(* orders in which Node delivers the events.                               *)
(***************************************************************************)
EXTENDS Naturals, Sequences, FiniteSets, TLC

VARIABLES env, osBinding, proc, API_KEYS,
          hpc, req, inbound, body, data, caught,
          res, parseCalls, invoked, outbound,
          up, responseBody

vars == <<env, osBinding, proc, API_KEYS, hpc, req, inbound, body, data,
          caught, res, parseCalls, invoked, outbound, up, responseBody>>

(* ------------------------------ bounds --------------------------------- *)
\* most 'data' events of one upstream response
MaxUpChunks == 2

(* --------------------------- program constants ------------------------- *)
PORT == 3000
DefaultMaxTokens == 4096

(* ----------------------------- JS values ------------------------------- *)
\* A JavaScript value that can occur as a property of the parsed body or as
\* a credential: undefined, null, a number, a string or an (opaque) array.
Undef == [t |-> "undefined", n |-> 0, s |-> ""]
Null == [t |-> "null", n |-> 0, s |-> ""]
Num(k) == [t |-> "number", n |-> k, s |-> ""]
Str(x) == [t |-> "string", n |-> 0, s |-> x]
Arr(x) == [t |-> "array", n |-> 0, s |-> x]

\* JavaScript truthiness, as used by the || operator
Truthy(v) ==
    CASE v.t = "undefined" -> FALSE
      [] v.t = "null" -> FALSE
      [] v.t = "number" -> v.n # 0
      [] v.t = "string" -> v.s # ""
      [] OTHER -> TRUE

\* a || b
OrElse(a, b) == IF Truthy(a) THEN a ELSE b

NumStr(k) ==
    CASE k = 0 -> "0"
      [] k = 7 -> "7"
      [] k = 4096 -> "4096"
      [] OTHER -> "N"

\* String(v), as applied by a template literal `${v}`
ToStr(v) ==
    CASE v.t = "undefined" -> "undefined"
      [] v.t = "null" -> "null"
      [] v.t = "number" -> NumStr(v.n)
      [] OTHER -> v.s

(* ------------------------------- JSON ---------------------------------- *)
\* Property names of the inbound object the model distinguishes.
Fields == {"model", "messages", "max_tokens", "prompt", "temperature"}

\* The text of a body is a sequence of lexemes.
LBrace == [k |-> "{", key |-> "", val |-> Undef]
RBrace == [k |-> "}", key |-> "", val |-> Undef]
Comma == [k |-> ",", key |-> "", val |-> Undef]
Member(key, v) == [k |-> "member", key |-> key, val |-> v]
Scalar(v) == [k |-> "scalar", key |-> "", val |-> v]
Junk == [k |-> "junk", key |-> "", val |-> Undef]

\* the lexemes between the braces are members separated by commas
MembersOk(mid) ==
    \/ Len(mid) = 0
    \/ /\ Len(mid) % 2 = 1
       /\ \A i \in 1..Len(mid) :
             IF i % 2 = 1 THEN mid[i].k = "member" ELSE mid[i].k = ","

\* value of property f of the object literal: the last member named f wins
Lookup(mid, f) ==
    LET hits == {i \in 1..Len(mid) : mid[i].k = "member" /\ mid[i].key = f}
    IN  IF hits = {} THEN Undef
        ELSE mid[CHOOSE i \in hits : \A j \in hits : j <= i].val

NoProps == [f \in Fields |-> Undef]

\* JSON.parse(text): ok = FALSE stands for the SyntaxError it throws
JSONParse(text) ==
    IF Len(text) = 1 /\ text[1].k = "scalar"
    THEN [ok |-> TRUE, v |-> text[1].val, f |-> NoProps]
    ELSE IF /\ Len(text) >= 2
            /\ text[1].k = "{"
            /\ text[Len(text)].k = "}"
            /\ MembersOk(SubSeq(text, 2, Len(text) - 1))
         THEN [ok |-> TRUE,
               v |-> [t |-> "object", n |-> 0, s |-> ""],
               f |-> [f \in Fields |->
                        Lookup(SubSeq(text, 2, Len(text) - 1), f)]]
         ELSE [ok |-> FALSE, v |-> Undef, f |-> NoProps]

\* data.f : reading a property of null or undefined throws a TypeError,
\* which the callers test with Throws; every other value has the property
\* or yields undefined
Throws(d) == d.v.t \in {"null", "undefined"}
Get(d, f) == IF d.v.t = "object" THEN d.f[f] ELSE Undef

\* JSON.stringify of an object literal given as <<key, value>> pairs in
\* source order: members whose value is undefined are omitted
Present(m) == m[2].t # "undefined"
JSONStringify(members) == SelectSeq(members, Present)

\* Buffer.byteLength of the serialisation, in lexemes: two braces, the
\* members and the commas between them
ByteLength(pd) == 2 + Len(pd) + (IF Len(pd) = 0 THEN 0 ELSE Len(pd) - 1)

\* JSON.stringify({ error: msg })
ErrorJson(msg) == <<"{\"error\":\"" \o msg \o "\"}">>

(* ------------------------------- UTF-8 --------------------------------- *)
\* Bytes an upstream body is made of: 'a', and the two bytes of U+00E9.
ByteA == 97
ByteLead == 195
ByteCont == 169

RECURSIVE Utf8Decode(_)
\* Buffer.prototype.toString(): a byte sequence that is not a complete
\* UTF-8 sequence decodes to U+FFFD
Utf8Decode(b) ==
    IF Len(b) = 0 THEN <<>>
    ELSE IF b[1] = ByteA THEN <<"a">> \o Utf8Decode(Tail(b))
    ELSE IF b[1] = ByteLead /\ Len(b) >= 2 /\ b[2] = ByteCont
         THEN <<"e-acute">> \o Utf8Decode(Tail(Tail(b)))
    ELSE <<"U+FFFD">> \o Utf8Decode(Tail(b))

RECURSIVE Utf8Encode(_)
\* the bytes res.end(string) puts on the wire
Utf8Encode(str) ==
    IF Len(str) = 0 THEN <<>>
    ELSE (CASE str[1] = "a" -> <<ByteA>>
            [] str[1] = "e-acute" -> <<ByteLead, ByteCont>>
            [] OTHER -> <<239, 191, 189>>) \o Utf8Encode(Tail(str))

RECURSIVE Flatten(_)
Flatten(chunks) ==
    IF Len(chunks) = 0 THEN <<>> ELSE chunks[1] \o Flatten(Tail(chunks))

(* ------------------------- http.ServerResponse ------------------------- *)
CorsOrigin == <<"Access-Control-Allow-Origin", "*">>
CorsMethods == <<"Access-Control-Allow-Methods", "POST, OPTIONS">>
CorsHeaders == <<"Access-Control-Allow-Headers", "Content-Type">>
JsonType == {<<"Content-Type", "application/json">>}

NewRes == [headers |-> {}, headSent |-> FALSE, status |-> 0, body |-> <<>>,
           ended |-> FALSE, writeHeadCalls |-> 0, threw |-> FALSE]

\* res.setHeader(name, value): replaces an earlier value of the same name
setHeader(r, h) ==
    [r EXCEPT !.headers = {x \in @ : x[1] # h[1]} \cup {h}]

\* writeHead as it would be if the headers given replaced those set before
writeHeadReplace(r, status, hdrs) ==
    IF r.headSent
    THEN [r EXCEPT !.threw = TRUE, !.writeHeadCalls = @ + 1]
    ELSE [r EXCEPT !.headSent = TRUE,
                   !.status = status,
                   !.headers = hdrs,
                   !.writeHeadCalls = @ + 1]

\* res.writeHead(status, headers): the headers given are merged over those
\* set with setHeader; a call after the head was sent throws
\* ERR_HTTP_HEADERS_SENT and writes nothing
writeHead(r, status, hdrs) ==
    IF r.headSent
    THEN [r EXCEPT !.threw = TRUE, !.writeHeadCalls = @ + 1]
    ELSE [r EXCEPT !.headSent = TRUE,
                   !.status = status,
                   !.headers = {x \in @ : \A h \in hdrs : h[1] # x[1]}
                                  \cup hdrs,
                   !.writeHeadCalls = @ + 1]

\* res.end(body): not reached when the writeHead before it threw
end(r, b) ==
    IF r.threw \/ r.ended THEN r ELSE [r EXCEPT !.body = b, !.ended = TRUE]

\* writeHead(status, {'Content-Type': 'application/json'}); end(body)
Reply(r, status, b) == end(writeHead(r, status, JsonType), b)

(* ------------------------------ adapters ------------------------------- *)
Providers == {"anthropic", "openai", "google"}

\* Strings with a character outside the range 0x21-0xFF (a space), which
\* https.request rejects in a path with ERR_UNESCAPED_CHARACTERS.
UnescapedStrings == {"gemini pro"}

\* https.request(options, cb) throws synchronously on a header whose value
\* is undefined (ERR_HTTP_INVALID_HEADER_VALUE) and on an invalid path
RequestThrows(options) ==
    \/ \E h \in options.headers : h[2].t = "undefined"
    \/ \E i \in 1..Len(options.path) : options.path[i] \in UnescapedStrings

AnthropicPostData(d) ==
    JSONStringify(<< <<"model", Get(d, "model")>>,
                     <<"max_tokens",
                       OrElse(Get(d, "max_tokens"), Num(DefaultMaxTokens))>>,
                     <<"messages", Get(d, "messages")>> >>)

AnthropicOptions(d, keys) ==
    [hostname |-> "api.anthropic.com",
     port |-> 443,
     path |-> <<"/v1/messages">>,
     method |-> "POST",
     headers |-> {<<"Content-Type", Str("application/json")>>,
                  <<"x-api-key", keys["anthropic"]>>,
                  <<"anthropic-version", Str("2023-06-01")>>,
                  <<"Content-Length", Num(ByteLength(AnthropicPostData(d)))>>},
     postData |-> AnthropicPostData(d)]

OpenAIPostData(d) ==
    JSONStringify(<< <<"model", Get(d, "model")>>,
                     <<"messages", Get(d, "messages")>> >>)

OpenAIOptions(d, keys) ==
    [hostname |-> "api.openai.com",
     port |-> 443,
     path |-> <<"/v1/chat/completions">>,
     method |-> "POST",
     headers |-> {<<"Content-Type", Str("application/json")>>,
                  <<"Authorization",
                    Str("Bearer " \o ToStr(keys["openai"]))>>,
                  <<"Content-Length", Num(ByteLength(OpenAIPostData(d)))>>},
     postData |-> OpenAIPostData(d)]

\* {contents: [{parts: [{text: data.prompt}]}]}: the one member "contents"
\* wraps the prompt; an undefined prompt leaves the inner object empty
Contents(p) == [t |-> "contents", n |-> p.n, s |-> ToStr(p)]

GooglePostData(d) ==
    JSONStringify(<< <<"contents", Contents(Get(d, "prompt"))>> >>)

GoogleOptions(d, keys) ==
    [hostname |-> "generativelanguage.googleapis.com",
     port |-> 443,
     path |-> <<"/v1beta/models/", ToStr(Get(d, "model")),
                ":generateContent?key=", ToStr(keys["google"])>>,
     method |-> "POST",
     headers |-> {<<"Content-Type", Str("application/json")>>,
                  <<"Content-Length", Num(ByteLength(GooglePostData(d)))>>},
     postData |-> GooglePostData(d)]

OptionsOf(provider, d, keys) ==
    CASE provider = "anthropic" -> AnthropicOptions(d, keys)
      [] provider = "openai" -> OpenAIOptions(d, keys)
      [] OTHER -> GoogleOptions(d, keys)

\* the upstream exchange of a request that has not been dispatched
NoUpstream == [state |-> "none", status |-> 0, errored |-> FALSE,
               message |-> "", raw |-> <<>>]

(* ------------------------------- inputs -------------------------------- *)
Absent == "<absent>"
EnvNames == {"ANTHROPIC_API_KEY", "OPENAI_API_KEY", "GOOGLE_API_KEY"}
\* what the identifier `os`, which the program never declares, is bound to
\* in the global scope of the host: nothing, Node's os module (which has no
\* getenv), or an object with a getenv function supplied by a preload
OsBindings == {"undeclared", "os module", "getenv shim"}

Methods == {"OPTIONS", "POST", "GET", "DELETE"}
Paths == {<<"/anthropic">>, <<"/openai">>, <<"/google">>, <<"/unknown">>,
          <<"/anthropic", "/">>}
Queries == {<<>>, <<"k=v">>}
\* the request target: the path, then "?" and the query when there is one
MkUrl(p, q) == IF q = <<>> THEN p ELSE p \o <<"?">> \o q

Model == Member("model", Str("m1"))
Messages == Member("messages", Arr("[user:hi]"))
Prompt == Member("prompt", Str("hello"))
ValidBodies ==
    { <<LBrace, Model, Comma, Messages, RBrace>>,
      <<LBrace, Model, Comma, Messages, Comma,
        Member("max_tokens", Num(7)), RBrace>>,
      <<LBrace, Model, Comma, Messages, Comma,
        Member("max_tokens", Num(0)), RBrace>>,
      <<LBrace, Model, Comma, Messages, Comma,
        Member("temperature", Num(7)), RBrace>>,
      <<LBrace, Model, Comma, Prompt, RBrace>>,
      <<LBrace, Model, Comma, Prompt, Comma, Messages, RBrace>>,
      <<LBrace, Member("model", Str("gemini pro")), Comma, Prompt, RBrace>>,
      <<LBrace, RBrace>>,
      <<Scalar(Null)>>,
      <<Scalar(Num(7))>>,
      <<Scalar(Arr("[]"))>> }
InvalidBodies ==
    { <<>>,
      <<Junk>>,
      <<LBrace, Model>>,
      <<LBrace, Model, Comma, RBrace>>,
      <<LBrace, Model, Messages, RBrace>> }
Bodies == ValidBodies \cup InvalidBodies

Statuses == {200, 401}
\* error.message of the failures the outbound request can report: the
\* connection cannot be set up; it is reset while the response is read; the
\* parser finds bytes it cannot accept behind a response it has completed
ConnectErrors == {"connect ECONNREFUSED"}
ParseError == "Parse Error: Expected HTTP/"
MidFlightErrors == {"read ECONNRESET", ParseError}
ErrorMessages == ConnectErrors \cup MidFlightErrors
\* chunks an upstream body arrives in: "a", a whole U+00E9, and each of
\* its two bytes alone (the character split by a chunk boundary)
Chunks == {<<ByteA>>, <<ByteLead, ByteCont>>, <<ByteLead>>, <<ByteCont>>}

(* ------------------------------ startup -------------------------------- *)
Init ==
    /\ env \in [EnvNames -> {Absent, "sk"}]
    /\ osBinding \in OsBindings
    /\ proc = [phase |-> "loading", exc |-> "none", port |-> 0]
    /\ API_KEYS = [p \in Providers |-> Undef]
    /\ hpc = "none"
    /\ req = [method |-> "", url |-> <<>>, pathname |-> <<>>]
    /\ inbound = <<>>
    /\ body = <<>>
    /\ data = JSONParse(<<>>)
    /\ caught = "none"
    /\ res = NewRes
    /\ parseCalls = 0
    /\ invoked = <<>>
    /\ outbound = <<>>
    /\ up = NoUpstream
    /\ responseBody = <<>>

\* os.getenv(name) under the shim binding
getenv(name) == IF env[name] = Absent THEN Undef ELSE Str(env[name])

\* lines 1-9: the requires, then the API_KEYS literal, whose first property
\* evaluates os.getenv(...)
LoadModule ==
    /\ proc.phase = "loading"
    /\ CASE osBinding = "undeclared" ->
              /\ proc' = [proc EXCEPT !.phase = "crashed",
                                      !.exc = "ReferenceError"]
              /\ UNCHANGED API_KEYS
         [] osBinding = "os module" ->
              /\ proc' = [proc EXCEPT !.phase = "crashed",
                                      !.exc = "TypeError"]
              /\ UNCHANGED API_KEYS
         [] OTHER ->
              /\ proc' = [proc EXCEPT !.phase = "configured"]
              /\ API_KEYS' = [p \in Providers |->
                                CASE p = "anthropic" ->
                                        getenv("ANTHROPIC_API_KEY")
                                  [] p = "openai" -> getenv("OPENAI_API_KEY")
                                  [] OTHER -> getenv("GOOGLE_API_KEY")]
    /\ UNCHANGED <<env, osBinding, hpc, req, inbound, body, data, caught,
                   res, parseCalls, invoked, outbound, up, responseBody>>

\* lines 11 and 182-183: createServer, then server.listen(PORT)
Listen ==
    /\ proc.phase = "configured"
    /\ proc' = [proc EXCEPT !.phase = "listening", !.port = PORT]
    /\ UNCHANGED <<env, osBinding, API_KEYS, hpc, req, inbound, body, data,
                   caught, res, parseCalls, invoked, outbound, up,
                   responseBody>>

(* --------------------------- request handler --------------------------- *)
\* the pathname as it would be if the query string were kept
PathnameRaw(u) == u

\* url.parse(req.url, true).pathname: the target up to the first "?"
RECURSIVE Pathname(_)
Pathname(u) ==
    IF Len(u) = 0 \/ u[1] = "?" THEN <<>> ELSE <<u[1]>> \o Pathname(Tail(u))

\* the method test as it would be if only GET were rejected
MethodClassGetOnly(m) ==
    IF m = "OPTIONS" THEN "preflight"
    ELSE IF m = "GET" THEN "reject"
    ELSE "read"

\* what the handler does with a method: lines 17 and 23
MethodClass(m) ==
    IF m = "OPTIONS" THEN "preflight"
    ELSE IF m # "POST" THEN "reject"
    ELSE "read"

\* the if / else-if chain of lines 41-50
Route(pathname) ==
    IF pathname = <<"/anthropic">> THEN "anthropic"
    ELSE IF pathname = <<"/openai">> THEN "openai"
    ELSE IF pathname = <<"/google">> THEN "google"
    ELSE "none"

NoOptions == [hostname |-> "", port |-> 0, path |-> <<>>, method |-> "",
              headers |-> {}, postData |-> <<>>]

\* the 'end' callback as it would be if the path were tested before the
\* body is parsed
OnEndRouteFirst(text, pathname, keys) ==
    LET d == JSONParse(text)
        provider == Route(pathname)
    IN  IF provider = "none"
        THEN [kind |-> "notfound", exc |-> "none", provider |-> "none",
              options |-> NoOptions]
        ELSE IF ~d.ok
        THEN [kind |-> "caught", exc |-> "SyntaxError", provider |-> "none",
              options |-> NoOptions]
        ELSE IF Throws(d) \/ RequestThrows(OptionsOf(provider, d, keys))
        THEN [kind |-> "caught", exc |-> "TypeError", provider |-> provider,
              options |-> NoOptions]
        ELSE [kind |-> "sent", exc |-> "none", provider |-> provider,
              options |-> OptionsOf(provider, d, keys)]

\* The body of the 'end' callback up to the point where it either answers
\* locally or has handed the request to https: JSON.parse, the routing and
\* the synchronous part of the adapter, all inside the try block.
OnEnd(text, pathname, keys) ==
    LET d == JSONParse(text)
        provider == Route(pathname)
    IN  IF ~d.ok
        THEN [kind |-> "caught", exc |-> "SyntaxError", provider |-> "none",
              options |-> NoOptions]
        ELSE IF provider = "none"
        THEN [kind |-> "notfound", exc |-> "none", provider |-> "none",
              options |-> NoOptions]
        ELSE IF Throws(d) \/ RequestThrows(OptionsOf(provider, d, keys))
        THEN [kind |-> "caught", exc |-> "TypeError", provider |-> provider,
              options |-> NoOptions]
        ELSE [kind |-> "sent", exc |-> "none", provider |-> provider,
              options |-> OptionsOf(provider, d, keys)]

\* lines 11-35: a request arrives at the listening server
RequestArrives ==
    /\ proc.phase = "listening"
    /\ hpc = "none"
    /\ \E m \in Methods, p \in Paths, q \in Queries, text \in Bodies :
          LET r0 == setHeader(setHeader(setHeader(NewRes, CorsOrigin),
                                        CorsMethods), CorsHeaders)
              u == MkUrl(p, q)
          IN  /\ inbound' = text
              /\ CASE MethodClass(m) = "preflight" ->
                        /\ res' = end(writeHead(r0, 200, {}), <<>>)
                        /\ hpc' = "returned"
                        /\ req' = [method |-> m, url |-> u, pathname |-> <<>>]
                   [] MethodClass(m) = "reject" ->
                        /\ res' = Reply(r0, 405,
                                        ErrorJson("Method not allowed"))
                        /\ hpc' = "returned"
                        /\ req' = [method |-> m, url |-> u, pathname |-> <<>>]
                   [] OTHER ->
                        /\ res' = r0
                        /\ hpc' = "reading"
                        /\ req' = [method |-> m, url |-> u,
                                   pathname |-> Pathname(u)]
    /\ body' = <<>>
    /\ UNCHANGED <<env, osBinding, proc, API_KEYS, data, caught, parseCalls,
                   invoked, outbound, up, responseBody>>

\* lines 33-35: req.on('data'): the next chunk of the body is appended
ReqData ==
    /\ proc.phase = "listening"
    /\ hpc = "reading"
    /\ \E k \in 1..Len(inbound) :
          /\ body' = body \o SubSeq(inbound, 1, k)
          /\ inbound' = SubSeq(inbound, k + 1, Len(inbound))
    /\ UNCHANGED <<env, osBinding, proc, API_KEYS, hpc, req, data, caught,
                   res, parseCalls, invoked, outbound, up, responseBody>>

\* lines 37-55: req.on('end'), with the synchronous part of the adapter it
\* calls (lines 58-78 and 96-97, 100-118 and 136-137, 140-160 and 178-179)
ReqEnd ==
    /\ proc.phase = "listening"
    /\ hpc = "reading"
    /\ inbound = <<>>
    /\ LET o == OnEnd(body, req.pathname, API_KEYS)
       IN  /\ hpc' = "ended"
           /\ parseCalls' = parseCalls + 1
           /\ data' = JSONParse(body)
           /\ caught' = o.exc
           /\ invoked' = IF o.provider = "none" THEN invoked
                         ELSE Append(invoked, o.provider)
           /\ CASE o.kind = "caught" ->
                     /\ res' = Reply(res, 400, ErrorJson("Invalid JSON"))
                     /\ UNCHANGED <<outbound, up>>
                [] o.kind = "notfound" ->
                     /\ res' = Reply(res, 404, ErrorJson("Not found"))
                     /\ UNCHANGED <<outbound, up>>
                [] OTHER ->
                     /\ outbound' = Append(outbound, o.options)
                     /\ up' = [NoUpstream EXCEPT !.state = "sent"]
                     /\ UNCHANGED res
    /\ UNCHANGED <<env, osBinding, proc, API_KEYS, req, inbound, body,
                   responseBody>>

(* -------------------------- upstream callbacks ------------------------- *)
\* lines 78-79: the response callback of https.request
UpstreamResponse ==
    /\ proc.phase = "listening"
    /\ up.state = "sent"
    /\ ~up.errored
    /\ \E st \in Statuses : up' = [up EXCEPT !.state = "response",
                                             !.status = st]
    /\ responseBody' = <<>>
    /\ UNCHANGED <<env, osBinding, proc, API_KEYS, hpc, req, inbound, body,
                   data, caught, res, parseCalls, invoked, outbound>>

\* Node still delivers what it has read of the response: always while the
\* request has not failed, and after a parse error behind a complete
\* response (the 'error' is emitted from the parser run, 'data' and 'end'
\* of the response it completed on the next tick)
Buffered == ~up.errored \/ up.message = ParseError

\* lines 81-83: proxyRes.on('data'): responseBody += chunk converts the
\* Buffer with toString() before it is appended
UpstreamData ==
    /\ proc.phase = "listening"
    /\ up.state = "response"
    /\ Buffered
    /\ Len(up.raw) < MaxUpChunks
    /\ \E chunk \in Chunks :
          /\ up' = [up EXCEPT !.raw = Append(@, chunk)]
          /\ responseBody' = responseBody \o Utf8Decode(chunk)
    /\ UNCHANGED <<env, osBinding, proc, API_KEYS, hpc, req, inbound, body,
                   data, caught, res, parseCalls, invoked, outbound>>

\* an exception that leaves a callback no try block encloses ends the
\* process
Uncaught(r, p) ==
    IF r.threw THEN [p EXCEPT !.phase = "crashed",
                              !.exc = "ERR_HTTP_HEADERS_SENT"]
    ELSE p

\* lines 85-88: proxyRes.on('end')
UpstreamEnd ==
    /\ proc.phase = "listening"
    /\ up.state = "response"
    /\ Buffered
    /\ up' = [up EXCEPT !.state = "ended"]
    /\ res' = Reply(res, up.status, responseBody)
    /\ proc' = Uncaught(Reply(res, up.status, responseBody), proc)
    /\ UNCHANGED <<env, osBinding, API_KEYS, hpc, req, inbound, body, data,
                   caught, parseCalls, invoked, outbound, responseBody>>

\* lines 91-94: proxyReq.on('error').  Node emits it at most once, while
\* the request still owns its socket: before the response callback, or
\* after it and before the 'end' of the response was delivered.
UpstreamError ==
    /\ proc.phase = "listening"
    /\ up.state \in {"sent", "response"}
    /\ ~up.errored
    /\ \E msg \in IF up.state = "sent" THEN ConnectErrors
                   ELSE MidFlightErrors :
          /\ up' = [up EXCEPT !.errored = TRUE, !.message = msg]
          /\ res' = Reply(res, 500, ErrorJson(msg))
          /\ proc' = Uncaught(Reply(res, 500, ErrorJson(msg)), proc)
    /\ UNCHANGED <<env, osBinding, API_KEYS, hpc, req, inbound, body, data,
                   caught, parseCalls, invoked, outbound, responseBody>>

\* The upstream closes the connection after the response callback and
\* before the end of the body.  Node reports this on proxyRes ('aborted',
\* and 'error' only to listeners of proxyRes), for which lines 78-94
\* register nothing: no callback of the program runs.
UpstreamAborted ==
    /\ proc.phase = "listening"
    /\ up.state = "response"
    /\ ~up.errored
    /\ up' = [up EXCEPT !.state = "aborted"]
    /\ UNCHANGED <<env, osBinding, proc, API_KEYS, hpc, req, inbound, body,
                   data, caught, res, parseCalls, invoked, outbound,
                   responseBody>>

Next ==
    \/ LoadModule
    \/ Listen
    \/ RequestArrives
    \/ ReqData
    \/ ReqEnd
    \/ UpstreamResponse
    \/ UpstreamData
    \/ UpstreamEnd
    \/ UpstreamError
    \/ UpstreamAborted

Spec == Init /\ [][Next]_vars

(* ------------------------------- claims -------------------------------- *)
Cors == {CorsOrigin, CorsMethods, CorsHeaders}
AdapterPaths == {<<"/anthropic">>, <<"/openai">>, <<"/google">>}
ProviderOf(p) ==
    CASE p = <<"/anthropic">> -> "anthropic"
      [] p = <<"/openai">> -> "openai"
      [] OTHER -> "google"
HostOf(provider) ==
    CASE provider = "anthropic" -> "api.anthropic.com"
      [] provider = "openai" -> "api.openai.com"
      [] OTHER -> "generativelanguage.googleapis.com"
\* the request was a POST whose body has been read to its end
PostHandled == hpc = "ended"
\* the upstream body, taken as a whole, is well-formed UTF-8
WellFormed(bytes) == Utf8Encode(Utf8Decode(bytes)) = bytes

\* C1: whatever the order of the inbound and upstream events, the caller
\* gets exactly one response: writeHead is never called a second time for a
\* request, and a request whose handling is over (answered locally, or its
\* upstream delivered 'end' or 'error') has been answered.
C1_ExactlyOneResponse ==
    /\ res.writeHeadCalls <= 1
    /\ proc.exc # "ERR_HTTP_HEADERS_SENT"
    /\ (hpc = "returned" \/ (hpc = "ended" /\ up.state = "none")
          \/ up.state = "ended" \/ up.errored)
         => (res.ended /\ res.writeHeadCalls = 1)

\* C2: once the outbound exchange has failed (an 'error' of the request, or
\* the connection closed between the response callback and 'end'), the
\* caller has status 500 with the failure description in `error`, after
\* one outbound request and no retry.
C2_FailureYields500 ==
    (up.errored \/ up.state = "aborted")
       => /\ res.ended
          /\ res.status = 500
          /\ \E msg \in ErrorMessages \cup {"aborted"} :
                res.body = ErrorJson(msg)
          /\ Len(outbound) = 1

\* C3: a POST whose body is not JSON is answered 400 {"error":"Invalid
\* JSON"} on every path, no adapter is invoked and nothing is sent upstream.
C3_InvalidJson400 ==
    (PostHandled /\ body \in InvalidBodies)
       => /\ res.ended
          /\ res.status = 400
          /\ res.body = ErrorJson("Invalid JSON")
          /\ invoked = <<>>
          /\ outbound = <<>>
          /\ up.state = "none"

C3_Witness ==
    /\ PostHandled
    /\ body = <<LBrace, Model, Comma, RBrace>>
    /\ req.url = <<"/unknown">>
    /\ res.status = 400
    /\ parseCalls = 1

\* C4: for a POST with a JSON body the path, query string ignored, selects
\* the adapter: each adapter path invokes its own adapter once and no
\* other, every other path invokes none and is answered 404 {"error":"Not
\* found"}.
C4_PathSelectsAdapter ==
    \A p \in Paths, q \in Queries :
       (PostHandled /\ body \in ValidBodies /\ req.url = MkUrl(p, q))
          => IF p \in AdapterPaths
             THEN /\ invoked = <<ProviderOf(p)>>
                  /\ Len(outbound) <= 1
                  /\ \A i \in 1..Len(outbound) :
                        outbound[i].hostname = HostOf(ProviderOf(p))
                  /\ res.status # 404
             ELSE /\ invoked = <<>>
                  /\ outbound = <<>>
                  /\ res.ended
                  /\ res.status = 404
                  /\ res.body = ErrorJson("Not found")

C4_Witness ==
    /\ PostHandled
    /\ req.url = <<"/anthropic", "?", "k=v">>
    /\ invoked = <<"anthropic">>
    /\ Len(outbound) = 1
    /\ up.state = "ended"

\* C5: the method is decided first: OPTIONS is answered 200 with an empty
\* body, any method other than POST and OPTIONS 405 {"error":"Method not
\* allowed"}, on every path; the body is then never read or parsed and no
\* adapter is invoked.
C5_MethodFirst ==
    (hpc # "none" /\ req.method # "POST")
       => /\ res.ended
          /\ IF req.method = "OPTIONS"
             THEN res.status = 200 /\ res.body = <<>>
             ELSE res.status = 405
                    /\ res.body = ErrorJson("Method not allowed")
          /\ body = <<>>
          /\ parseCalls = 0
          /\ invoked = <<>>
          /\ outbound = <<>>

C5_Witness ==
    /\ req.method = "DELETE"
    /\ req.url = <<"/anthropic">>
    /\ inbound \in ValidBodies
    /\ res.status = 405

\* C6: every response head that was sent carries the three CORS headers,
\* whatever the path through the handler.
C6_CorsOnEveryResponse ==
    res.headSent => Cors \subseteq res.headers

C6_Witness ==
    /\ res.headSent
    /\ res.status = 500
    /\ up.errored
    /\ <<"Content-Type", "application/json">> \in res.headers

\* C7: for a valid body each adapter sends exactly the fields of its
\* mapping: Anthropic {model, max_tokens, messages} with max_tokens 4096
\* when absent and the inbound number otherwise (0 included), OpenAI
\* {model, messages}, Google the contents built from prompt alone.
C7_PayloadMapping ==
    \A i \in 1..Len(outbound) :
       LET o == outbound[i]
           mt == Get(data, "max_tokens")
       IN  /\ (o.hostname = HostOf("anthropic")
                 /\ Get(data, "model") # Undef
                 /\ Get(data, "messages") # Undef
                 /\ mt.t \in {"undefined", "number"})
                => o.postData =
                     << <<"model", Get(data, "model")>>,
                        <<"max_tokens",
                          IF mt = Undef THEN Num(DefaultMaxTokens) ELSE mt>>,
                        <<"messages", Get(data, "messages")>> >>
           /\ (o.hostname = HostOf("openai")
                 /\ Get(data, "model") # Undef
                 /\ Get(data, "messages") # Undef)
                => o.postData = << <<"model", Get(data, "model")>>,
                                   <<"messages", Get(data, "messages")>> >>
           /\ (o.hostname = HostOf("google")
                 /\ Get(data, "prompt") # Undef)
                => o.postData =
                     << <<"contents", Contents(Get(data, "prompt"))>> >>

\* C8: nothing is written to the caller before the upstream 'end'; when the
\* upstream response completes the caller has the upstream status and a
\* body whose bytes are the upstream chunks, concatenated in arrival order
\* (stated here for upstream bodies that are well-formed UTF-8).
C8_RelayVerbatim ==
    /\ (up.state = "response" /\ ~up.errored)
          => (~res.headSent /\ ~res.ended /\ res.body = <<>>)
    /\ (up.state = "ended" /\ ~up.errored /\ WellFormed(Flatten(up.raw)))
          => /\ res.ended
             /\ res.status = up.status
             /\ Utf8Encode(res.body) = Flatten(up.raw)

\* C9: whatever credentials are set or absent, loading the configuration
\* raises no error: the process is never found crashed without having
\* listened on port 3000.
C9_StartupNeverFails ==
    proc.phase = "crashed" => proc.port = PORT

\* C10: 400 Invalid JSON is produced only when the body fails to parse: a
\* POST to an adapter path whose body is JSON issues one outbound request
\* and is not answered 400.
C10_Only400OnParseFailure ==
    \A p \in AdapterPaths, q \in Queries :
       (PostHandled /\ body \in ValidBodies /\ req.url = MkUrl(p, q))
          => /\ Len(outbound) = 1
             /\ ~(res.status = 400 /\ res.body = ErrorJson("Invalid JSON"))

====
